---- MODULE Spec2Model ----
(***************************************************************************)
(* A state-machine model of metrics-exporter-influx: the registry and its  *)
(* handles (recorder.rs, registry.rs), render() and clear()                *)
(* (recorder.rs), the periodic exporter loop with its file and HTTP sinks  *)
(* (exporter.rs, http.rs) and the flush on drop (recorder.rs, builder.rs). *)
(*                                                                         *)
(* Processes: one instrumentation thread ("app"), the periodic exporter    *)
(* task ("run") and the flush started by dropping the recorder ("drop").   *)
(* Every step is one atomic access of the code: a registry lookup, a       *)
(* snapshot of handles, a lock acquisition, a sink write, a POST.          *)
(***************************************************************************)
EXTENDS Integers, Sequences, FiniteSets, TLC

\* ---------------------------------------------------------------- bounds
MaxGen == 2          \* cells ever allocated for one kind and key
MaxCount == 2        \* largest value a counter cell is driven to
MaxGauge == 1        \* largest value a gauge is set to
MaxSamples == 2      \* histogram samples ever recorded
MaxTicks == 2        \* ticks of the interval timer (the first one included)
MaxClockStep == 1    \* ticks the clock may advance between two reads
MsTicks == 2         \* clock ticks in one millisecond
MaxLoopTicks == 4    \* ticks of the interval timer in SpecLoop
MaxNameLen == 2      \* characters of a metric name
MaxLabels == 2       \* labels of a metric key
MaxCalls == 2        \* add_buckets_for_metric calls on one builder
MaxSampleValue == 2  \* largest value recorded in the histogram
MaxInstalls == 2     \* install() calls in the process
MaxPoints == 2       \* points of one render() in SpecJoin
MaxTimestamp == 1    \* largest timestamp of a point in SpecJoin
MaxChunks == 2       \* write calls write_all makes for one batch
MaxRaceTicks == 3    \* ticks of the interval timer in SpecRace

\* ------------------------------------------------------ program constants
\* FibonacciBackoff::from_millis(500).take(3): three delays, so three retries
MaxRetries == 3

Keys == {"a", "b"}
\* keys the instrumentation thread uses for each kind of metric
CounterKeys == {"a", "b"}
GaugeKeys == {"a"}
HistogramKeys == {"a"}
\* the keys whose counters are incremented; the others are only registered
HotKeys == {"a"}

Writers == {"run", "drop"}
NoCell == 0

VARIABLES
    sink,                   \* ExporterConfig: "file" or "http"
    counters,               \* registry: key -> counter cell (NoCell: absent)
    gauges,                 \* registry: key -> gauge cell
    histograms,             \* registry: key -> histogram cell
    ccells,                 \* per key, the counter cells ever allocated
    gcells,                 \* per key, the gauge cells ever allocated
    hcells,                 \* per key, the histogram cells ever allocated
    counter_registrations,  \* Inner::counter_registrations (under regLock)
    regLock,                \* holder of the counter_registrations mutex
    fileLock,               \* holder of the writer's tokio mutex
    file,                   \* the writer: the number of batches appended
    apc,                    \* position of the instrumentation thread
    akey,                   \* key of the register_counter call in progress
    closed,                 \* InfluxRecorderHandle::close has been called
    pc,                     \* position of each writer
    ticks,                  \* ticks the interval has fired
    gsnap, rsnap, csnap, dsnap,  \* render()'s locals
    body,                   \* the points render() returned to write()
    posts,                  \* POST attempts of the current write()
    response,               \* the response of the last attempt, if any
    clears,                 \* clear() calls of the current write()
    logged,                 \* error! messages of the current write()
    result,                 \* what the current write() returned
    recorded,               \* number of samples recorded so far
    written,                \* per sample: windows that reached the sink
    incs,                   \* per key: increments through live handles
    rendered,               \* keys whose counter a render() since the last
                            \* clear() has emitted
    lastv,                  \* per key: the counter value the last render()
                            \* since the last clear() has emitted
    started,                \* per writer: write() calls begun
    failed                  \* per writer: write() calls that returned Err

\* one point on its way from a metric key to a line of text
VARIABLES
    global_tags,            \* Inner::global_tags
    global_fields,          \* Inner::global_fields
    key,                    \* the metric Key: its name and its labels
    value,                  \* the value loaded from the key's cell
    tags,                   \* parse_labels: the tags folded so far
    fields,                 \* parse_labels: the fields folded so far
    folded,                 \* number of labels folded
    ppc,                    \* position: "off", "labels", "value", "display",
                            \* "done"
    line                    \* the text of the point

exporterVars ==
        <<sink, counters, gauges, histograms, ccells, gcells, hcells,
          counter_registrations, regLock, fileLock, file, apc, akey, closed,
          pc, ticks, gsnap, rsnap, csnap, dsnap, body, posts, response,
          clears, logged, result, recorded, written, incs, rendered, lastv,
          started, failed>>

\* the builder, the distribution policy it configures and one histogram
VARIABLES
    builder,                \* InfluxBuilder: quantiles, buckets,
                            \* bucket_overrides
    bpc,                    \* position: "off", "config", "failed", "built",
                            \* "rendered"
    berr,                   \* the Err the last builder call returned, if any
    asked,                  \* what the calls asked for: the default list of
                            \* with_buckets, the overrides registered
    distribution_builder,   \* Inner::distribution_builder
    hname,                  \* the name of the histogram key
    bucket,                 \* the samples in the histogram's AtomicBucket
    hpoint                  \* the fields render() gives for the histogram

\* install(): the calls, the exporters they spawn, the facade's slot
VARIABLES
    install,                \* per install() call: position, the kind of
                            \* runtime found, what it returned, whether the
                            \* exporter it spawned runs and the ticks that
                            \* exporter has served
    global_recorder         \* the active-recorder slot: 0 or the call that
                            \* set it

\* the end of render(): the points become the text
VARIABLES
    metrics,                \* render: the vector of points collected
    jpc,                    \* position: "off", "count", "encode", "join",
                            \* "done"
    jcount,                 \* render: count
    jlines,                 \* the encoded points, in timestamp order
    jtext                   \* render: the text returned

\* the writer of the file sink, one write call of write_all at a time
VARIABLES
    appended,               \* the chunks appended: who wrote each and
                            \* whether the batch goes on, ends or was cut
    parts                   \* per writer: chunks of its batch written so far

pointVars == <<global_tags, global_fields, key, value, tags, fields, folded,
               ppc, line>>

builderVars == <<builder, bpc, berr, asked, distribution_builder, hname,
                 bucket, hpoint>>

installVars == <<install, global_recorder>>

joinVars == <<metrics, jpc, jcount, jlines, jtext>>

chunkVars == <<appended, parts>>

\* the state of the models that run apart from the exporter
offVars == <<pointVars, builderVars, installVars, joinVars, chunkVars>>

vars == <<exporterVars, offVars>>

cellVars == <<ccells, gcells, hcells>>
registryVars == <<counters, gauges, histograms, cellVars>>
appVars == <<apc, akey, recorded, incs>>
snapVars == <<gsnap, rsnap, csnap, dsnap>>
writeVars == <<body, posts, response, clears, logged, result>>

\* ------------------------------------------------------------- helpers
NoMap == [k \in Keys |-> NoCell]
NoCells == [k \in Keys |-> <<>>]
NoDist == [k \in Keys |-> [present |-> FALSE, samples |-> <<>>]]

Min(a, b) == IF a < b THEN a ELSE b

Range(s) == {s[i] : i \in DOMAIN s}

\* where a writer goes when write() returns
Return(w) == IF w = "run" THEN "wait" ELSE "done"

\* the message the caller of write() logs when write() returns an error
CallerLog(w) ==
    IF w = "run" THEN "failed to write metrics"
    ELSE "failed to flush metrics on drop"

\* a writer that is not inside write()
Idle(w) == pc[w] \in {"start", "wait", "off", "done"}

\* ------------------------------------------------------------ registry
\* AtomicStorage::counter / gauge: Arc::new(AtomicU64::new(0)). `live` is
\* history: the cell was created after the last clear().
NewCell == [val |-> 0, live |-> TRUE]

\* AtomicStorage::histogram: Arc::new(AtomicBucketInstant::new())
NewBucket == [samples |-> <<>>, live |-> TRUE]

\* A mutant of GetOrCreate: a new cell at every call.
GetOrCreateAlwaysNew(map, cs, k, new) ==
    [map |-> [map EXCEPT ![k] = Len(cs[k]) + 1],
     cells |-> [cs EXCEPT ![k] = Append(@, new)],
     cell |-> Len(cs[k]) + 1]

\* Registry::get_or_create_*: the cell of the key, created when absent. The
\* handle returned is the cell's index among the cells of the key.
GetOrCreate(map, cs, k, new) ==
    IF map[k] # NoCell
    THEN [map |-> map, cells |-> cs, cell |-> map[k]]
    ELSE [map |-> [map EXCEPT ![k] = Len(cs[k]) + 1],
          cells |-> [cs EXCEPT ![k] = Append(@, new)],
          cell |-> Len(cs[k]) + 1]

\* register_counter, first half: take the lock, look the key up, and note a
\* key that has no cell as newly registered
RegisterCounterCheck(k) ==
    /\ apc = "idle"
    /\ ~closed
    /\ regLock = "free"
    /\ Len(ccells[k]) < MaxGen
    /\ regLock' = "app"
    /\ apc' = "reg"
    /\ akey' = k
    /\ counter_registrations' =
          IF counters[k] # NoCell THEN counter_registrations
          ELSE counter_registrations \cup {k}
    /\ UNCHANGED offVars
    /\ UNCHANGED <<sink, registryVars, fileLock, file, closed, pc, ticks,
                   snapVars, writeVars, recorded, written, incs,
                   rendered, lastv, started, failed>>

\* register_counter, second half: get_or_create_counter, then the guard drops
RegisterCounterCreate ==
    /\ apc = "reg"
    /\ LET r == GetOrCreate(counters, ccells, akey, NewCell) IN
          /\ counters' = r.map
          /\ ccells' = r.cells
    /\ regLock' = "free"
    /\ apc' = "idle"
    /\ UNCHANGED offVars
    /\ UNCHANGED <<sink, gauges, histograms, gcells, hcells,
                   counter_registrations, fileLock, file, akey, closed, pc,
                   ticks, snapVars, writeVars, recorded, written, incs,
                   rendered, lastv, started, failed>>

RegisterGauge(k) ==
    /\ apc = "idle"
    /\ ~closed
    /\ Len(gcells[k]) < MaxGen
    /\ LET r == GetOrCreate(gauges, gcells, k, NewCell) IN
          /\ gauges' = r.map
          /\ gcells' = r.cells
    /\ UNCHANGED offVars
    /\ UNCHANGED <<sink, counters, histograms, ccells, hcells,
                   counter_registrations, regLock, fileLock, file, appVars,
                   closed, pc, ticks, snapVars, writeVars, written,
                   rendered, lastv, started, failed>>

RegisterHistogram(k) ==
    /\ apc = "idle"
    /\ ~closed
    /\ Len(hcells[k]) < MaxGen
    /\ LET r == GetOrCreate(histograms, hcells, k, NewBucket) IN
          /\ histograms' = r.map
          /\ hcells' = r.cells
    /\ UNCHANGED offVars
    /\ UNCHANGED <<sink, counters, gauges, ccells, gcells,
                   counter_registrations, regLock, fileLock, file, appVars,
                   closed, pc, ticks, snapVars, writeVars, written,
                   rendered, lastv, started, failed>>

\* Counter::increment(1) through the handle of cell c: fetch_add on the cell
Increment(k, c) ==
    /\ apc = "idle"
    /\ ccells[k][c].val < MaxCount
    /\ ccells' = [ccells EXCEPT ![k][c].val = @ + 1]
    /\ incs' = IF ccells[k][c].live THEN [incs EXCEPT ![k] = @ + 1] ELSE incs
    /\ UNCHANGED offVars
    /\ UNCHANGED <<sink, counters, gauges, histograms, gcells, hcells,
                   counter_registrations, regLock, fileLock, file, apc, akey,
                   recorded, closed, pc, ticks, snapVars, writeVars, written,
                   rendered, lastv, started, failed>>

\* Gauge::set(v) through the handle of cell c: store on the cell
SetGauge(k, c, v) ==
    /\ apc = "idle"
    /\ gcells[k][c].val # v
    /\ gcells' = [gcells EXCEPT ![k][c].val = v]
    /\ UNCHANGED offVars
    /\ UNCHANGED <<sink, counters, gauges, histograms, ccells, hcells,
                   counter_registrations, regLock, fileLock, file, appVars,
                   closed, pc, ticks, snapVars, writeVars, written,
                   rendered, lastv, started, failed>>

\* AtomicBucketInstant::record through the handle of cell c: push the sample
Record(k, c) ==
    /\ apc = "idle"
    /\ recorded < MaxSamples
    /\ recorded' = recorded + 1
    /\ hcells' = [hcells EXCEPT ![k][c].samples = Append(@, recorded + 1)]
    /\ UNCHANGED offVars
    /\ UNCHANGED <<sink, counters, gauges, histograms, ccells, gcells,
                   counter_registrations, regLock, fileLock, file, apc, akey,
                   incs, closed, pc, ticks, snapVars, writeVars, written,
                   rendered, lastv, started, failed>>

\* A mutant of ClearRegistry: the counters stay in the registry.
ClearRegistryKeepsCounters ==
    /\ counters' = counters
    /\ gauges' = NoMap
    /\ histograms' = NoMap
    /\ ccells' = ccells
    /\ gcells' = [k \in Keys |->
                    [i \in DOMAIN gcells[k] |-> [gcells[k][i] EXCEPT !.live = FALSE]]]
    /\ hcells' = [k \in Keys |->
                    [i \in DOMAIN hcells[k] |-> [hcells[k][i] EXCEPT !.live = FALSE]]]
    /\ incs' = incs
    /\ rendered' = rendered
    /\ lastv' = lastv

\* Registry::clear: every entry is dropped; the handles handed out keep
\* their cells
ClearRegistry ==
    /\ counters' = NoMap
    /\ gauges' = NoMap
    /\ histograms' = NoMap
    /\ ccells' = [k \in Keys |->
                    [i \in DOMAIN ccells[k] |-> [ccells[k][i] EXCEPT !.live = FALSE]]]
    /\ gcells' = [k \in Keys |->
                    [i \in DOMAIN gcells[k] |-> [gcells[k][i] EXCEPT !.live = FALSE]]]
    /\ hcells' = [k \in Keys |->
                    [i \in DOMAIN hcells[k] |-> [hcells[k][i] EXCEPT !.live = FALSE]]]
    /\ incs' = [k \in Keys |-> 0]
    /\ rendered' = {}
    /\ lastv' = [k \in Keys |-> 0]

\* ------------------------------------------------------------- render
\* A mutant of AfterRead: the cell is drained (AtomicBucket::clear_with).
AfterReadDrained(cell) == [cell EXCEPT !.samples = <<>>]

\* AtomicBucket::data_with: the samples are read and stay in the cell
AfterRead(cell) == cell

\* A mutant of Timestamp: every point of a group carries the clock's reading.
TimestampNoOffset(index) == 0

\* timestamp - Duration::milliseconds(index), the group's clock reading being 0
Timestamp(index) == 0 - index * MsTicks

Point(src, k, v, s, t) ==
    [src |-> src, key |-> k, value |-> v, samples |-> s, ts |-> t]

\* counter_gauge_metrics: for each key the values of the gauge, of the new
\* registration and of the counter, in this order, reversed and indexed
GroupPoints(gs, rs, cs) ==
    UNION {
        LET nC == IF cs[k] # NoCell THEN 1 ELSE 0
            nZ == IF k \in rs THEN 1 ELSE 0
        IN  (IF cs[k] # NoCell
             THEN {Point("counter", k, ccells[k][cs[k]].val, <<>>, Timestamp(0))}
             ELSE {})
            \cup
            (IF k \in rs
             THEN {Point("zero", k, 0, <<>>, Timestamp(nC))}
             ELSE {})
            \cup
            (IF gs[k] # NoCell
             THEN {Point("gauge", k, gcells[k][gs[k]].val, <<>>, Timestamp(nC + nZ))}
             ELSE {})
        : k \in Keys }

\* histogram_metrics in summary mode (no buckets configured, the builder's
\* default): no point for an empty summary; the timestamp is a later reading
\* of the clock, d ticks after the group's
HistogramPoints(ds, d) ==
    {Point("histogram", k, 0, ds[k].samples, d) :
        k \in {x \in Keys : ds[x].present /\ ds[x].samples # <<>>}}

Points(gs, rs, cs, ds, d) == GroupPoints(gs, rs, cs) \cup HistogramPoints(ds, d)

Count(b) == Cardinality(b)

\* the samples a batch counts
SamplesOf(b) == UNION {Range(p.samples) : p \in b}

\* get_gauge_handles(): the gauge handles, loaded later
RenderGauges(w) ==
    /\ pc[w] = "gauges"
    /\ gsnap' = [gsnap EXCEPT ![w] = gauges]
    /\ pc' = [pc EXCEPT ![w] = "regs"]
    /\ UNCHANGED offVars
    /\ UNCHANGED <<sink, registryVars, counter_registrations, regLock,
                   fileLock, file, appVars, closed, ticks, rsnap, csnap, dsnap,
                   writeVars, written,
                   rendered, lastv, started, failed>>

\* A mutant of Drained: the set of new registrations is left as it is.
DrainedKept(regs) == regs

\* _guard.clear()
Drained(regs) == {}

\* the registrations block: lock, copy, clear, unlock
RenderRegistrations(w) ==
    /\ pc[w] = "regs"
    /\ regLock = "free"
    /\ rsnap' = [rsnap EXCEPT ![w] = counter_registrations]
    /\ counter_registrations' = Drained(counter_registrations)
    /\ pc' = [pc EXCEPT ![w] = "counters"]
    /\ UNCHANGED offVars
    /\ UNCHANGED <<sink, registryVars, regLock, fileLock, file, appVars,
                   closed, ticks, gsnap, csnap, dsnap, writeVars, written,
                   rendered, lastv, started, failed>>

\* get_counter_handles(): the counter handles, loaded later
RenderCounters(w) ==
    /\ pc[w] = "counters"
    /\ csnap' = [csnap EXCEPT ![w] = counters]
    /\ pc' = [pc EXCEPT ![w] = "hists"]
    /\ UNCHANGED offVars
    /\ UNCHANGED <<sink, registryVars, counter_registrations, regLock,
                   fileLock, file, appVars, closed, ticks, gsnap, rsnap, dsnap,
                   writeVars, written,
                   rendered, lastv, started, failed>>

\* get_histogram_handles() and record_samples on each (collect_vec)
RenderHistograms(w) ==
    /\ pc[w] = "hists"
    /\ dsnap' = [dsnap EXCEPT ![w] =
          [k \in Keys |->
              IF histograms[k] # NoCell
              THEN [present |-> TRUE,
                    samples |-> hcells[k][histograms[k]].samples]
              ELSE [present |-> FALSE, samples |-> <<>>]]]
    /\ hcells' = [k \in Keys |-> [i \in DOMAIN hcells[k] |->
                     IF i = histograms[k]
                     THEN AfterRead(hcells[k][i]) ELSE hcells[k][i]]]
    /\ pc' = [pc EXCEPT ![w] = "collect"]
    /\ UNCHANGED offVars
    /\ UNCHANGED <<sink, counters, gauges, histograms, ccells, gcells,
                   counter_registrations,
                   regLock, fileLock, file, appVars, closed, ticks, gsnap,
                   rsnap, csnap, writeVars, written,
                   rendered, lastv, started, failed>>

\* A mutant of AfterRender: write() goes to the sink whatever the count.
AfterRenderAlways(w, count) == IF sink = "file" THEN "lock" ELSE "post"

\* write(): `if count > 0` after render()
AfterRender(w, count) ==
    IF count > 0
    THEN (IF sink = "file" THEN "lock" ELSE "post")
    ELSE Return(w)

\* the rest of render(): the loads of gauges and counters, the grouping, the
\* points; then write()'s test of the count
RenderCollect(w) ==
    /\ pc[w] = "collect"
    /\ \E d \in 0..MaxClockStep :
          LET b == Points(gsnap[w], rsnap[w], csnap[w], dsnap[w], d) IN
             /\ body' = [body EXCEPT ![w] = b]
             /\ pc' = [pc EXCEPT ![w] = AfterRender(w, Count(b))]
             /\ result' = [result EXCEPT ![w] =
                              IF pc'[w] = Return(w) THEN "ok" ELSE @]
    /\ gsnap' = [gsnap EXCEPT ![w] = NoMap]
    /\ rsnap' = [rsnap EXCEPT ![w] = {}]
    /\ csnap' = [csnap EXCEPT ![w] = NoMap]
    /\ dsnap' = [dsnap EXCEPT ![w] = NoDist]
    /\ rendered' = rendered \cup {k \in Keys : csnap[w][k] # NoCell}
    /\ lastv' = [k \in Keys |->
                   IF csnap[w][k] # NoCell THEN ccells[k][csnap[w][k]].val
                   ELSE lastv[k]]
    /\ UNCHANGED offVars
    /\ UNCHANGED <<sink, registryVars, counter_registrations, regLock,
                   fileLock, file, appVars, closed, ticks, posts, response,
                   clears, logged, written, started, failed>>

\* ------------------------------------------------------------ file sink
Bump(b) ==
    [s \in DOMAIN written |->
        IF s \in SamplesOf(b) THEN Min(written[s] + 1, 2) ELSE written[s]]

\* A mutant of Acquirable: the lock is given whoever holds it.
AcquirableAlways(holder) == TRUE

\* tokio::sync::Mutex::lock completes when nobody holds the mutex
Acquirable(holder) == holder = "free"

\* self.file.lock().await
FileLock(w) ==
    /\ pc[w] = "lock"
    /\ Acquirable(fileLock)
    /\ fileLock' = w
    /\ pc' = [pc EXCEPT ![w] = "write"]
    /\ UNCHANGED offVars
    /\ UNCHANGED <<sink, registryVars, counter_registrations, regLock, file,
                   appVars, closed, ticks, snapVars, writeVars, written,
                   rendered, lastv, started, failed>>

\* A mutant of AfterWriteError: the registry is cleared after a failed append.
AfterWriteErrorClear(w) == "clear"

\* A mutant of AfterWriteError: the error of write() ends the caller.
AfterWriteErrorStops(w) == "done"

\* file.write_all(..)?: the error leaves write(), the guard drops
AfterWriteError(w) == Return(w)

\* file.write_all(metrics.as_bytes())
FileWrite(w) ==
    /\ pc[w] = "write"
    /\ \E ok \in BOOLEAN :
          IF ok
          THEN /\ file' = file + 1
               /\ written' = Bump(body[w])
               /\ pc' = [pc EXCEPT ![w] = "clear"]
               /\ UNCHANGED <<fileLock, result, logged, body, failed>>
          ELSE /\ pc' = [pc EXCEPT ![w] = AfterWriteError(w)]
               /\ failed' = [failed EXCEPT ![w] = @ + 1]
               /\ fileLock' = IF pc'[w] = Return(w) THEN "free" ELSE fileLock
               /\ result' = [result EXCEPT ![w] = "err"]
               /\ logged' = [logged EXCEPT ![w] = @ \cup {CallerLog(w)}]
               /\ body' = [body EXCEPT ![w] = {}]
               /\ UNCHANGED <<file, written>>
    /\ UNCHANGED offVars
    /\ UNCHANGED <<sink, registryVars, counter_registrations, regLock,
                   appVars, closed, ticks, snapVars, posts, response, clears,
                   rendered, lastv, started>>

\* self.handle.clear(), then the guard of the writer drops
FileClear(w) ==
    /\ pc[w] = "clear"
    /\ ClearRegistry
    /\ clears' = [clears EXCEPT ![w] = @ + 1]
    /\ fileLock' = "free"
    /\ result' = [result EXCEPT ![w] = IF @ = "err" THEN @ ELSE "ok"]
    /\ body' = [body EXCEPT ![w] = {}]
    /\ pc' = [pc EXCEPT ![w] = Return(w)]
    /\ UNCHANGED offVars
    /\ UNCHANGED <<sink, counter_registrations, regLock, file, apc, akey,
                   recorded, closed, ticks, snapVars, posts, response,
                   logged, written, started, failed>>

\* ------------------------------------------------------------ HTTP sink
\* A mutant of RetryAgain: the strategy yields one delay only.
RetryAgainOnce(attempts) == attempts <= 1

\* Retry::spawn: after a failed attempt the strategy is asked for a delay;
\* it has MaxRetries of them
RetryAgain(attempts) == attempts <= MaxRetries

\* one attempt of the retried closure: send, then error_for_status_ref.
\* "transport": send failed, there is no response.
HttpPost(w) ==
    /\ pc[w] = "post"
    /\ \E o \in {"ok", "status", "transport"} :
          /\ posts' = [posts EXCEPT ![w] =
                          Append(@, [body |-> body[w], ok |-> (o = "ok")])]
          /\ response' = [response EXCEPT ![w] = o]
          /\ written' = IF o = "ok" THEN Bump(body[w]) ELSE written
          /\ pc' = [pc EXCEPT ![w] =
                       IF o # "ok" /\ RetryAgain(Len(posts'[w]))
                       THEN "post" ELSE "finish"]
    /\ UNCHANGED offVars
    /\ UNCHANGED <<sink, registryVars, counter_registrations, regLock,
                   fileLock, file, appVars, closed, ticks, snapVars, body,
                   clears, logged, result,
                   rendered, lastv, started, failed>>

\* A mutant of HttpOutcomeClears: the registry is cleared whatever the outcome.
HttpOutcomeClearsAlways(o) == TRUE

\* the match on the outcome in InfluxHttpExporter::write: no arm calls clear()
HttpOutcomeClears(o) == FALSE

\* the match on the outcome of Retry::spawn
HttpFinish(w) ==
    /\ pc[w] = "finish"
    /\ \E textOk \in BOOLEAN :
          IF response[w] # "transport" /\ ~textOk
          THEN \* resp.text().await? leaves write() with the error
               /\ result' = [result EXCEPT ![w] = "err"]
               /\ logged' = [logged EXCEPT ![w] = @ \cup {CallerLog(w)}]
               /\ failed' = [failed EXCEPT ![w] = @ + 1]
          ELSE /\ result' = [result EXCEPT ![w] = "ok"]
               /\ UNCHANGED failed
               /\ logged' = [logged EXCEPT ![w] =
                     IF response[w] = "ok" THEN @
                     ELSE @ \cup {"failed to write to server"}]
    /\ IF HttpOutcomeClears(response[w])
       THEN /\ ClearRegistry
            /\ clears' = [clears EXCEPT ![w] = @ + 1]
       ELSE UNCHANGED <<registryVars, incs, rendered, lastv, clears>>
    /\ body' = [body EXCEPT ![w] = {}]
    /\ posts' = [posts EXCEPT ![w] = <<>>]
    /\ pc' = [pc EXCEPT ![w] = Return(w)]
    /\ UNCHANGED offVars
    /\ UNCHANGED <<sink, counter_registrations, regLock, fileLock, file, apc,
                   akey, recorded, closed, ticks, snapVars, response, written,
                   started>>

\* ------------------------------------------------- the loop and the drop
\* write() begins: render() is entered
StartWrite(w) ==
    /\ pc' = [pc EXCEPT ![w] = "gauges"]
    /\ body' = [body EXCEPT ![w] = {}]
    /\ posts' = [posts EXCEPT ![w] = <<>>]
    /\ response' = [response EXCEPT ![w] = "none"]
    /\ clears' = [clears EXCEPT ![w] = 0]
    /\ logged' = [logged EXCEPT ![w] = {}]
    /\ result' = [result EXCEPT ![w] = "none"]
    /\ started' = [started EXCEPT ![w] = @ + 1]

\* A mutant of FirstTick: the first tick is not skipped.
FirstTickWrites ==
    /\ pc["run"] = "start"
    /\ ticks' = 1
    /\ StartWrite("run")
    /\ UNCHANGED offVars
    /\ UNCHANGED <<sink, registryVars, counter_registrations, regLock,
                   fileLock, file, appVars, closed, snapVars, written,
                   rendered, lastv, failed>>

\* run: the first tick completes immediately and is skipped
FirstTick ==
    /\ pc["run"] = "start"
    /\ pc' = [pc EXCEPT !["run"] = "wait"]
    /\ ticks' = 1
    /\ UNCHANGED offVars
    /\ UNCHANGED <<sink, registryVars, counter_registrations, regLock,
                   fileLock, file, appVars, closed, snapVars, writeVars,
                   written,
                   rendered, lastv, started, failed>>

\* run: interval.tick().await, then self.write().await; the interval fires
\* at most n times
TickUpTo(n) ==
    /\ pc["run"] = "wait"
    /\ ticks < n
    /\ ticks' = ticks + 1
    /\ StartWrite("run")
    /\ UNCHANGED offVars
    /\ UNCHANGED <<sink, registryVars, counter_registrations, regLock,
                   fileLock, file, appVars, closed, snapVars, written,
                   rendered, lastv, failed>>

Tick == TickUpTo(MaxTicks)

\* InfluxRecorderHandle::close: the recorder is dropped; with a runtime at
\* hand its Drop builds an exporter and runs one write() on a new thread
Close ==
    /\ ~closed
    /\ apc = "idle"
    /\ closed' = TRUE
    /\ \E runtime \in BOOLEAN :
          IF runtime
          THEN /\ StartWrite("drop")
               /\ apc' = "join"
          ELSE /\ pc' = [pc EXCEPT !["drop"] = "done"]
               /\ UNCHANGED <<writeVars, apc, started>>
    /\ UNCHANGED offVars
    /\ UNCHANGED <<sink, registryVars, counter_registrations, regLock,
                   fileLock, file, akey, recorded, incs, ticks, snapVars,
                   written,
                   rendered, lastv, failed>>

\* A mutant of Joined: drop returns without waiting for the flush thread.
JoinedEarly ==
    /\ apc = "join"
    /\ apc' = "idle"
    /\ UNCHANGED offVars
    /\ UNCHANGED <<sink, registryVars, counter_registrations, regLock,
                   fileLock, file, akey, recorded, incs, closed, pc, ticks,
                   snapVars, writeVars, written, rendered, lastv,
                   started, failed>>

\* thread_handle.join() returns: the flush has ended
Joined ==
    /\ apc = "join"
    /\ pc["drop"] = "done"
    /\ apc' = "idle"
    /\ UNCHANGED offVars
    /\ UNCHANGED <<sink, registryVars, counter_registrations, regLock,
                   fileLock, file, akey, recorded, incs, closed, pc, ticks,
                   snapVars, writeVars, written,
                   rendered, lastv, started, failed>>

\* ---------------------------------------------------------------- spec
\* no point is being encoded
PointOff ==
    /\ global_tags = <<>>
    /\ global_fields = <<>>
    /\ key = [name |-> <<>>, labels |-> <<>>]
    /\ value = 0
    /\ tags = <<>>
    /\ fields = <<>>
    /\ folded = 0
    /\ ppc = "off"
    /\ line = <<>>

\* Option::None and Option::Some of a list
None == [some |-> FALSE, val |-> <<>>]
Some(v) == [some |-> TRUE, val |-> v]

NoPoint == [present |-> FALSE, kind |-> "none", sum |-> 0, count |-> 0,
            buckets |-> <<>>, quantiles |-> <<>>]

\* no builder is in use
BuilderOff ==
    /\ builder = [quantiles |-> <<>>, buckets |-> None,
                  bucket_overrides |-> <<>>]
    /\ bpc = "off"
    /\ berr = "none"
    /\ asked = [default |-> None, overrides |-> <<>>]
    /\ distribution_builder = [quantiles |-> <<>>, buckets |-> None,
                               bucket_overrides |-> <<>>]
    /\ hname = <<>>
    /\ bucket = <<>>
    /\ hpoint = NoPoint

NotCalled == [pc |-> "idle", runtime |-> "none", result |-> "none",
              exporter |-> "none", ticks |-> 0]

\* install() has not been called
InstallOff ==
    /\ install = [i \in 1..MaxInstalls |-> NotCalled]
    /\ global_recorder = 0

\* no render() is at its end
JoinOff ==
    /\ metrics = <<>>
    /\ jpc = "off"
    /\ jcount = 0
    /\ jlines = <<>>
    /\ jtext = <<>>

\* nothing has been appended chunk by chunk
ChunkOff ==
    /\ appended = <<>>
    /\ parts = [w \in Writers |-> 0]

OffInit == PointOff /\ BuilderOff /\ InstallOff /\ JoinOff /\ ChunkOff

InitExporter ==
    /\ sink \in {"file", "http"}
    /\ counters = NoMap
    /\ gauges = NoMap
    /\ histograms = NoMap
    /\ ccells = NoCells
    /\ gcells = NoCells
    /\ hcells = NoCells
    /\ counter_registrations = {}
    /\ regLock = "free"
    /\ fileLock = "free"
    /\ file = 0
    /\ apc = "idle"
    /\ akey = "a"
    /\ closed = FALSE
    /\ pc = [w \in Writers |-> IF w = "run" THEN "start" ELSE "off"]
    /\ ticks = 0
    /\ gsnap = [w \in Writers |-> NoMap]
    /\ rsnap = [w \in Writers |-> {}]
    /\ csnap = [w \in Writers |-> NoMap]
    /\ dsnap = [w \in Writers |-> NoDist]
    /\ body = [w \in Writers |-> {}]
    /\ posts = [w \in Writers |-> <<>>]
    /\ response = [w \in Writers |-> "none"]
    /\ clears = [w \in Writers |-> 0]
    /\ logged = [w \in Writers |-> {}]
    /\ result = [w \in Writers |-> "none"]
    /\ recorded = 0
    /\ written = [s \in 1..MaxSamples |-> 0]
    /\ incs = [k \in Keys |-> 0]
    /\ rendered = {}
    /\ lastv = [k \in Keys |-> 0]
    /\ started = [w \in Writers |-> 0]
    /\ failed = [w \in Writers |-> 0]

Init == InitExporter /\ OffInit

\* the instrumentation thread, registering counters under the keys ks
AppNext(ks) ==
    \/ \E k \in ks : RegisterCounterCheck(k)
    \/ RegisterCounterCreate
    \/ \E k \in GaugeKeys : RegisterGauge(k)
    \/ \E k \in HistogramKeys : RegisterHistogram(k)
    \/ \E k \in HotKeys : \E c \in DOMAIN ccells[k] : Increment(k, c)
    \/ \E k \in GaugeKeys : \E c \in DOMAIN gcells[k] :
          \E v \in 0..MaxGauge : SetGauge(k, c, v)
    \/ \E k \in HistogramKeys : \E c \in DOMAIN hcells[k] : Record(k, c)

\* write(), from render() to its return
WriterNext(w) ==
    \/ RenderGauges(w)
    \/ RenderRegistrations(w)
    \/ RenderCounters(w)
    \/ RenderHistograms(w)
    \/ RenderCollect(w)
    \/ FileLock(w)
    \/ FileWrite(w)
    \/ FileClear(w)
    \/ HttpPost(w)
    \/ HttpFinish(w)

\* The instrumentation thread and the periodic exporter, every interleaving
\* of their steps.
Next ==
    \/ AppNext(HotKeys)
    \/ FirstTick
    \/ Tick
    \/ WriterNext("run")

Spec == Init /\ [][Next]_vars

\* The instrumentation thread, the periodic exporter and the flush on close,
\* one operation at a time: no step of one is taken inside an operation of
\* another.
NextSeq ==
    \/ Idle("run") /\ Idle("drop") /\ AppNext(CounterKeys)
    \/ apc = "idle" /\ Idle("drop") /\ (FirstTick \/ Tick \/ WriterNext("run"))
    \/ Idle("run") /\ (Close \/ Joined \/ WriterNext("drop"))

SpecSeq == Init /\ [][NextSeq]_vars

\* The exporter loop over MaxLoopTicks ticks beside a thread that keeps one
\* gauge, one operation at a time.
NextLoop ==
    \/ Idle("run") /\ (\E k \in GaugeKeys : RegisterGauge(k))
    \/ Idle("run") /\ (\E k \in GaugeKeys : \E c \in DOMAIN gcells[k] :
                           SetGauge(k, c, MaxGauge))
    \/ FirstTick
    \/ TickUpTo(MaxLoopTicks)
    \/ WriterNext("run")

SpecLoop == Init /\ [][NextLoop]_vars

\* ------------------------------------------------ one point, key to text
\* Strings are sequences of characters.
Chars == {"a", "b", " ", ",", "=", "\\"}

\* the byte of a character: str compares byte by byte
Byte(c) ==
    CASE c = "\n" -> 10
      [] c = " " -> 32
      [] c = "\"" -> 34
      [] c = "," -> 44
      [] c = "0" -> 48
      [] c = "1" -> 49
      [] c = "2" -> 50
      [] c = "=" -> 61
      [] c = "\\" -> 92
      [] c = "a" -> 97
      [] c = "b" -> 98
      [] c = "e" -> 101
      [] c = "i" -> 105
      [] c = "k" -> 107
      [] c = "l" -> 108
      [] c = "u" -> 117
      [] c = "v" -> 118
      [] OTHER -> 120

\* a < b for two strings
RECURSIVE StrLess(_, _)
StrLess(a, b) ==
    IF b = <<>> THEN FALSE
    ELSE IF a = <<>> THEN TRUE
    ELSE IF Byte(Head(a)) # Byte(Head(b)) THEN Byte(Head(a)) < Byte(Head(b))
    ELSE StrLess(Tail(a), Tail(b))

FieldPrefix == <<"f", "i", "e", "l", "d", ":">>
TagPrefix == <<"t", "a", "g", ":">>
ValueKey == <<"v", "a", "l", "u", "e">>

\* str::strip_prefix
StripPrefix(k, p) ==
    IF Len(k) >= Len(p) /\ SubSeq(k, 1, Len(p)) = p
    THEN [some |-> TRUE, rest |-> SubSeq(k, Len(p) + 1, Len(k))]
    ELSE [some |-> FALSE, rest |-> <<>>]

\* HashMap::insert
Insert(map, k, v) ==
    [x \in DOMAIN map \cup {k} |-> IF x = k THEN v ELSE map[x]]

\* MetricData::String
StringData(t) == [type |-> "String", text |-> t]
\* MetricData::UInteger, with the digits of its value
UIntegerData(t) == [type |-> "UInteger", text |-> t]
\* MetricData::Boolean, with the text of its value
BooleanData(t) == [type |-> "Boolean", text |-> t]

Digit(n) == <<"0", "1", "2", "3", "4", "5", "6", "7", "8", "9">>[n + 1]

\* the last arm of parse_labels: tags.insert(k, v)
UnprefixedLabel(ts, k, v) == Insert(ts, k, v)

\* the closure folded over the labels in parse_labels
ParseLabel(ts, fs, label) ==
    LET f == StripPrefix(label.k, FieldPrefix)
        t == StripPrefix(label.k, TagPrefix)
    IN  IF f.some
        THEN [tags |-> ts, fields |-> Insert(fs, f.rest, StringData(label.v))]
        ELSE IF t.some
        THEN [tags |-> Insert(ts, t.rest, label.v), fields |-> fs]
        ELSE [tags |-> UnprefixedLabel(ts, label.k, label.v), fields |-> fs]

\* str::replace of one character by a string
RECURSIVE Replace(_, _, _)
Replace(s, c, r) ==
    IF s = <<>> THEN <<>>
    ELSE (IF Head(s) = c THEN r ELSE <<Head(s)>>) \o Replace(Tail(s), c, r)

\* A mutant of EscapeString: the equals sign is not escaped.
EscapeStringNoEquals(s) ==
    Replace(Replace(s, " ", <<"\\", " ">>), ",", <<"\\", ",">>)

\* escape_string
EscapeString(s) ==
    Replace(Replace(Replace(s, " ", <<"\\", " ">>), ",", <<"\\", ",">>),
            "=", <<"\\", "=">>)

\* Display for MetricData
FormatData(d) ==
    CASE d.type = "String" ->
            <<"\"">> \o Replace(d.text, "\"", <<"\\", "\"">>) \o <<"\"">>
      [] d.type = "UInteger" -> d.text \o <<"i">>
      [] OTHER -> d.text

\* the place of a key in a sorted sequence of keys
RECURSIVE InsertSorted(_, _)
InsertSorted(sorted, k) ==
    IF sorted = <<>> THEN <<k>>
    ELSE IF StrLess(k, Head(sorted)) THEN <<k>> \o sorted
    ELSE <<Head(sorted)>> \o InsertSorted(Tail(sorted), k)

RECURSIVE SortKeys(_, _)
SortKeys(sorted, rest) ==
    IF rest = <<>> THEN sorted
    ELSE SortKeys(InsertSorted(sorted, Head(rest)), Tail(rest))

\* A mutant of SortedByKey: the entries stay in the map's iteration order.
SortedByKeyUnsorted(order) == order

\* .iter().sorted_by_key(|(k, _)| *k), over the map's iteration order
SortedByKey(order) == SortKeys(<<>>, order)

\* Itertools::join
RECURSIVE Join(_, _)
Join(items, sep) ==
    IF items = <<>> THEN <<>>
    ELSE IF Len(items) = 1 THEN items[1]
    ELSE items[1] \o sep \o Join(Tail(items), sep)

\* the orders in which a HashMap may iterate over its keys
Orders(S) ==
    {q \in [1..Cardinality(S) -> S] :
        \A i, j \in 1..Cardinality(S) : i # j => q[i] # q[j]}

\* Display for InfluxMetric, the maps iterating in the orders to and fo
DisplayMetric(name, ts, fs, timestamp, to, fo) ==
    LET tagItems ==
            [i \in DOMAIN to |->
                EscapeString(to[i]) \o <<"=">> \o EscapeString(ts[to[i]])]
        fieldItems ==
            [i \in DOMAIN fo |->
                EscapeString(fo[i]) \o <<"=">> \o FormatData(fs[fo[i]])]
    IN  EscapeString(name)
        \o (IF DOMAIN ts = {} THEN <<>>
            ELSE <<",">> \o Join(tagItems, <<",">>))
        \o (IF DOMAIN fs = {} THEN <<>>
            ELSE <<" ">> \o Join(fieldItems, <<",">>))
        \o <<" ">> \o timestamp

\* one step of the fold of parse_labels
FoldLabel ==
    /\ ppc = "labels"
    /\ folded < Len(key.labels)
    /\ LET r == ParseLabel(tags, fields, key.labels[folded + 1]) IN
          /\ tags' = r.tags
          /\ fields' = r.fields
    /\ folded' = folded + 1
    /\ UNCHANGED <<global_tags, global_fields, key, value, ppc, line>>
    /\ UNCHANGED <<exporterVars, builderVars, installVars, joinVars, chunkVars>>

\* parse_labels returns; render: fields.insert("value", value)
InsertValue ==
    /\ ppc = "labels"
    /\ folded = Len(key.labels)
    /\ fields' = Insert(fields, ValueKey, UIntegerData(<<Digit(value)>>))
    /\ ppc' = "display"
    /\ UNCHANGED <<global_tags, global_fields, key, value, tags, folded, line>>
    /\ UNCHANGED <<exporterVars, builderVars, installVars, joinVars, chunkVars>>

\* render: m.to_string()
Display ==
    /\ ppc = "display"
    /\ \E to \in Orders(DOMAIN tags) : \E fo \in Orders(DOMAIN fields) :
          line' = DisplayMetric(key.name, tags, fields, <<Digit(0)>>,
                                SortedByKey(to), SortedByKey(fo))
    /\ ppc' = "done"
    /\ UNCHANGED <<global_tags, global_fields, key, value, tags, fields,
                   folded>>
    /\ UNCHANGED <<exporterVars, builderVars, installVars, joinVars, chunkVars>>

\* strings of at most n characters
Strings(n) == UNION {[1..m -> Chars] : m \in 0..n}

\* the label keys and values the instrumented code uses
LabelKeys == {<<"k">>, TagPrefix \o <<"k">>, FieldPrefix \o <<"k">>,
              <<"a", " ">>}
LabelValues == {<<"x">>, <<"=", "b">>}
Labels == [k : LabelKeys, v : LabelValues]

\* a global tag and a global field, both under the key "k", or none
GlobalTags == {<<>>, [x \in {<<"k">>} |-> <<"a", ",">>]}
GlobalFields == {<<>>, [x \in {<<"k">>} |-> BooleanData(<<"b">>)]}

\* render begins one point: parse_labels starts from the global maps
InitPoint ==
    /\ InitExporter
    /\ sink = "file"
    /\ global_tags \in GlobalTags
    /\ global_fields \in GlobalFields
    /\ key \in [name : Strings(MaxNameLen),
                labels : UNION {[1..m -> Labels] : m \in 0..MaxLabels}]
    /\ value \in 0..MaxCount
    /\ tags = global_tags
    /\ fields = global_fields
    /\ folded = 0
    /\ ppc = "labels"
    /\ line = <<>>
    /\ BuilderOff
    /\ InstallOff
    /\ JoinOff
    /\ ChunkOff

NextPoint == FoldLabel \/ InsertValue \/ Display

SpecPoint == InitPoint /\ [][NextPoint]_vars

\* ------------------------------------- the builder and the distributions
\* "latency_ms" and "other_ms"
LatencyMs == <<"l", "a", "t", "e", "n", "c", "y", "_", "m", "s">>
OtherMs == <<"o", "t", "h", "e", "r", "_", "m", "s">>
MetricNames == {LatencyMs, OtherMs}

\* Matcher::Prefix("lat") and Matcher::Suffix("_ms")
Matchers == {[kind |-> "Prefix", pat |-> <<"l", "a", "t">>],
             [kind |-> "Suffix", pat |-> <<"_", "m", "s">>]}

\* the lists a builder call is given: quantiles, bucket boundaries
QuantileLists == {<<>>, <<50>>}
BucketLists == {<<>>, <<1>>, <<1, 2>>}

\* InfluxBuilder::new: parse_quantiles(&[0.0, 0.5, .., 1.0]), here the
\* minimum, the median and the maximum
DefaultQuantiles == <<0, 50, 100>>

\* Matcher::matches
Matches(m, name) ==
    CASE m.kind = "Prefix" ->
            Len(name) >= Len(m.pat) /\ SubSeq(name, 1, Len(m.pat)) = m.pat
      [] m.kind = "Suffix" ->
            Len(name) >= Len(m.pat)
            /\ SubSeq(name, Len(name) - Len(m.pat) + 1, Len(name)) = m.pat
      [] OTHER -> name = m.pat

\* A mutant of IsEmpty: no list is taken for empty.
IsEmptyNever(values) == FALSE

\* values.is_empty()
IsEmpty(values) == values = <<>>

\* a builder call returns Err(BuildError::EmptyBucketsOrQuantiles): the
\* builder it consumed is gone
BuilderFails ==
    /\ bpc' = "failed"
    /\ berr' = "EmptyBucketsOrQuantiles"
    /\ UNCHANGED <<builder, asked>>

\* InfluxBuilder::with_quantiles
WithQuantiles(quantiles) ==
    /\ bpc = "config"
    /\ IF IsEmpty(quantiles)
       THEN BuilderFails
       ELSE /\ builder' = [builder EXCEPT !.quantiles = quantiles]
            /\ UNCHANGED <<bpc, berr, asked>>
    /\ UNCHANGED <<distribution_builder, hname, bucket, hpoint>>
    /\ UNCHANGED <<exporterVars, pointVars, installVars, joinVars, chunkVars>>

\* InfluxBuilder::with_buckets
WithBuckets(values) ==
    /\ bpc = "config"
    /\ IF IsEmpty(values)
       THEN BuilderFails
       ELSE /\ builder' = [builder EXCEPT !.buckets = Some(values)]
            /\ asked' = [asked EXCEPT !.default = Some(values)]
            /\ UNCHANGED <<bpc, berr>>
    /\ UNCHANGED <<distribution_builder, hname, bucket, hpoint>>
    /\ UNCHANGED <<exporterVars, pointVars, installVars, joinVars, chunkVars>>

\* add_buckets_for_metric: self.buckets = Some(values.to_vec())
OverrideSetsDefault(buckets, values) == Some(values)

\* InfluxBuilder::add_buckets_for_metric; bucket_overrides is a HashMap, here
\* a function from its matchers to their lists
AddBucketsForMetric(matcher, values) ==
    /\ bpc = "config"
    /\ Len(asked.overrides) < MaxCalls
    /\ IF IsEmpty(values)
       THEN BuilderFails
       ELSE /\ builder' =
                  [builder EXCEPT
                     !.bucket_overrides =
                        IF matcher \in DOMAIN @ THEN @
                        ELSE Insert(@, matcher, values),
                     !.buckets = OverrideSetsDefault(@, values)]
            /\ asked' = [asked EXCEPT !.overrides =
                            Append(@, [matcher |-> matcher,
                                       values |-> values])]
            /\ UNCHANGED <<bpc, berr>>
    /\ UNCHANGED <<distribution_builder, hname, bucket, hpoint>>
    /\ UNCHANGED <<exporterVars, pointVars, installVars, joinVars, chunkVars>>

\* DistributionBuilder::new: the overrides of the map, in a list
NewDistributionBuilder(quantiles, buckets, overrides, order) ==
    [quantiles |-> quantiles,
     buckets |-> buckets,
     bucket_overrides |->
        [i \in DOMAIN order |->
            [matcher |-> order[i], values |-> overrides[order[i]]]]]

\* InfluxBuilder::build_recorder; the application then makes one histogram
BuildRecorder ==
    /\ bpc = "config"
    /\ \E order \in Orders(DOMAIN builder.bucket_overrides) :
          distribution_builder' =
              NewDistributionBuilder(builder.quantiles, builder.buckets,
                                     builder.bucket_overrides, order)
    /\ hname' \in MetricNames
    /\ bpc' = "built"
    /\ UNCHANGED <<builder, berr, asked, bucket, hpoint>>
    /\ UNCHANGED <<exporterVars, pointVars, installVars, joinVars, chunkVars>>

\* HistogramFn::record: self.inner.push((value, now))
RecordSample(v) ==
    /\ bpc = "built"
    /\ Len(bucket) < MaxSamples
    /\ bucket' = Append(bucket, v)
    /\ UNCHANGED <<builder, bpc, berr, asked, distribution_builder, hname,
                   hpoint>>
    /\ UNCHANGED <<exporterVars, pointVars, installVars, joinVars, chunkVars>>

\* the first override of the list that matches the name, 0 if none does
FirstMatch(overrides, name) ==
    LET hits == {i \in DOMAIN overrides : Matches(overrides[i].matcher, name)}
    IN  IF hits = {} THEN 0 ELSE CHOOSE i \in hits : \A j \in hits : i <= j

\* Distribution::Histogram over the boundaries bounds, nothing recorded
NewHistogram(bounds) ==
    [kind |-> "Histogram", bounds |-> bounds,
     counts |-> [i \in DOMAIN bounds |-> 0], quantiles |-> <<>>,
     count |-> 0, sum |-> 0]

\* Distribution::Summary over the quantiles, nothing recorded
NewSummary(quantiles) ==
    [kind |-> "Summary", bounds |-> <<>>, counts |-> <<>>,
     quantiles |-> quantiles, count |-> 0, sum |-> 0]

\* DistributionBuilder::get_distribution: the first matching override, else
\* the default boundaries, else a summary
GetDistribution(db, name) ==
    LET i == FirstMatch(db.bucket_overrides, name) IN
        IF i # 0 THEN NewHistogram(db.bucket_overrides[i].values)
        ELSE IF db.buckets.some THEN NewHistogram(db.buckets.val)
        ELSE NewSummary(db.quantiles)

\* Distribution::record_samples, for one sample: the cumulative count of
\* every boundary the sample does not exceed, the count and the sum
RecordOne(dist, v) ==
    [dist EXCEPT
        !.counts = [i \in DOMAIN @ |->
                       IF v <= dist.bounds[i] THEN @[i] + 1 ELSE @[i]],
        !.count = @ + 1,
        !.sum = @ + v]

RECURSIVE RecordAll(_, _)
RecordAll(dist, samples) ==
    IF samples = <<>> THEN dist
    ELSE RecordAll(RecordOne(dist, Head(samples)), Tail(samples))

\* A mutant of RecordSamples: the newest sample of the bucket is left out.
RecordSamplesButLast(dist, samples) ==
    RecordAll(dist, SubSeq(samples, 1, Len(samples) - 1))

\* AtomicBucketInstant::record_samples: every sample of the bucket goes into
\* the distribution
RecordSamples(dist, samples) == RecordAll(dist, samples)

\* render: the point of a Distribution::Histogram
HistogramFields(dist) ==
    [present |-> TRUE, kind |-> "Histogram", sum |-> dist.sum,
     count |-> dist.count, buckets |-> dist.counts, quantiles |-> <<>>]

\* render: the point of a Distribution::Summary, none when it is empty
SummaryFields(dist) ==
    IF dist.count = 0 THEN NoPoint
    ELSE [present |-> TRUE, kind |-> "Summary", sum |-> dist.sum,
          count |-> dist.count, buckets |-> <<>>,
          quantiles |-> dist.quantiles]

\* render: distributions and histogram_metrics, for the one histogram
RenderHistogram ==
    /\ bpc = "built"
    /\ LET dist == RecordSamples(GetDistribution(distribution_builder, hname),
                                 bucket)
       IN  hpoint' = IF dist.kind = "Histogram" THEN HistogramFields(dist)
                     ELSE SummaryFields(dist)
    /\ bpc' = "rendered"
    /\ UNCHANGED <<builder, berr, asked, distribution_builder, hname, bucket>>
    /\ UNCHANGED <<exporterVars, pointVars, installVars, joinVars, chunkVars>>

\* InfluxBuilder::new
InitBuilder ==
    /\ InitExporter
    /\ sink = "file"
    /\ PointOff
    /\ InstallOff
    /\ JoinOff
    /\ ChunkOff
    /\ builder = [quantiles |-> DefaultQuantiles, buckets |-> None,
                  bucket_overrides |-> <<>>]
    /\ bpc = "config"
    /\ berr = "none"
    /\ asked = [default |-> None, overrides |-> <<>>]
    /\ distribution_builder = [quantiles |-> <<>>, buckets |-> None,
                               bucket_overrides |-> <<>>]
    /\ hname = <<>>
    /\ bucket = <<>>
    /\ hpoint = NoPoint

NextBuilder ==
    \/ \E q \in QuantileLists : WithQuantiles(q)
    \/ \E v \in BucketLists : WithBuckets(v)
    \/ \E m \in Matchers : \E v \in BucketLists : AddBucketsForMetric(m, v)
    \/ BuildRecorder
    \/ \E v \in 0..MaxSampleValue : RecordSample(v)
    \/ RenderHistogram

SpecBuilder == InitBuilder /\ [][NextBuilder]_vars

\* ================================================================ install
\* InfluxBuilder::install, one call i at a time or several interleaved.

\* install: runtime::Handle::try_current() and self.build(); without a
\* current runtime a current-thread runtime is built, which may fail
InstallBuild(i) ==
    /\ install[i].pc = "idle"
    /\ \/ \E rt \in {"handle", "thread"} :
            install' = [install EXCEPT ![i].pc = "built", ![i].runtime = rt]
       \/ install' = [install EXCEPT ![i].pc = "returned",
                                     ![i].runtime = "thread",
                                     ![i].result = "FailedToCreateRuntime"]
    /\ UNCHANGED global_recorder
    /\ UNCHANGED <<exporterVars, pointVars, builderVars, joinVars, chunkVars>>

\* install: handle.spawn(exporter), or thread::Builder::spawn of
\* runtime.block_on(exporter), which may fail
InstallSpawn(i) ==
    /\ install[i].pc = "built"
    /\ \/ install' = [install EXCEPT ![i].pc = "spawned",
                                     ![i].exporter = "running"]
       \/ /\ install[i].runtime = "thread"
          /\ install' = [install EXCEPT ![i].pc = "returned",
                                        ![i].result = "FailedToCreateRuntime"]
    /\ UNCHANGED global_recorder
    /\ UNCHANGED <<exporterVars, pointVars, builderVars, joinVars, chunkVars>>

\* install: RecoverableRecorder::from_recorder(recorder)?, the last step;
\* it fails when the slot is taken, and install returns the error
InstallSetRecorder(i) ==
    /\ install[i].pc = "spawned"
    /\ IF global_recorder = 0
       THEN /\ global_recorder' = i
            /\ install' = [install EXCEPT ![i].pc = "returned",
                                          ![i].result = "Ok"]
       ELSE /\ install' = [install EXCEPT
                              ![i].pc = "returned",
                              ![i].result = "FailedToSetGlobalRecorder"]
            /\ UNCHANGED global_recorder
    /\ UNCHANGED <<exporterVars, pointVars, builderVars, joinVars, chunkVars>>

\* run: one more interval.tick().await and write() of the spawned exporter;
\* the loop has no exit
ExporterTick(i) ==
    /\ install[i].exporter = "running"
    /\ install[i].ticks < MaxLoopTicks
    /\ install' = [install EXCEPT ![i].ticks = @ + 1]
    /\ UNCHANGED global_recorder
    /\ UNCHANGED <<exporterVars, pointVars, builderVars, joinVars, chunkVars>>

\* InfluxRecorderHandle::close: inner.into_inner() takes the recorder back;
\* whether the facade then accepts another recorder is the facade's matter,
\* so the slot is freed or stays taken
CloseHandle(i) ==
    /\ install[i].pc = "returned"
    /\ install[i].result = "Ok"
    /\ global_recorder = i
    /\ global_recorder' \in {0, i}
    /\ install' = [install EXCEPT ![i].pc = "closed"]
    /\ UNCHANGED <<exporterVars, pointVars, builderVars, joinVars, chunkVars>>

InitInstall ==
    /\ InitExporter
    /\ sink = "file"
    /\ PointOff
    /\ BuilderOff
    /\ InstallOff
    /\ JoinOff
    /\ ChunkOff

NextInstall ==
    \E i \in 1..MaxInstalls :
        \/ InstallBuild(i)
        \/ InstallSpawn(i)
        \/ InstallSetRecorder(i)
        \/ ExporterTick(i)
        \/ CloseHandle(i)

SpecInstall == InitInstall /\ [][NextInstall]_vars

\* ============================================== render: the text returned
\* let count = metrics.len(), then sorted_by_key(timestamp), to_string,
\* sorted, join("\n").
NewLine == <<"\n">>

\* the timestamp of a point as Display writes it
TimestampText(t) == <<Digit(t)>>

\* m.to_string() of a point with the one field "value"
Encode(m) ==
    DisplayMetric(m.name, <<>>,
                  [x \in {ValueKey} |-> UIntegerData(<<Digit(m.value)>>)],
                  TimestampText(m.timestamp), <<>>, <<ValueKey>>)

\* the place of a point in a sequence sorted by timestamp: after the points
\* that are not later (the sort is stable)
RECURSIVE InsertByTimestamp(_, _)
InsertByTimestamp(sorted, m) ==
    IF sorted = <<>> THEN <<m>>
    ELSE IF m.timestamp < Head(sorted).timestamp THEN <<m>> \o sorted
    ELSE <<Head(sorted)>> \o InsertByTimestamp(Tail(sorted), m)

RECURSIVE SortByTimestamp(_, _)
SortByTimestamp(sorted, rest) ==
    IF rest = <<>> THEN sorted
    ELSE SortByTimestamp(InsertByTimestamp(sorted, Head(rest)), Tail(rest))

\* .sorted_by_key(|m| m.timestamp)
SortedByTimestamp(ms) == SortByTimestamp(<<>>, ms)

\* A mutant of SortedLines: the lines stay in timestamp order.
SortedLinesKept(lines) == lines

\* .sorted() over the strings
SortedLines(lines) == SortKeys(<<>>, lines)

\* render: let count = metrics.len()
RenderCount ==
    /\ jpc = "count"
    /\ jcount' = Len(metrics)
    /\ jpc' = "encode"
    /\ UNCHANGED <<metrics, jlines, jtext>>
    /\ UNCHANGED <<exporterVars, pointVars, builderVars, installVars, chunkVars>>

\* render: .sorted_by_key(|m| m.timestamp).map(|m| m.to_string())
RenderEncode ==
    /\ jpc = "encode"
    /\ LET ms == SortedByTimestamp(metrics) IN
          jlines' = [i \in DOMAIN ms |-> Encode(ms[i])]
    /\ jpc' = "join"
    /\ UNCHANGED <<metrics, jcount, jtext>>
    /\ UNCHANGED <<exporterVars, pointVars, builderVars, installVars, chunkVars>>

\* render: .sorted().join("\n"), and the pair is returned
RenderJoin ==
    /\ jpc = "join"
    /\ jtext' = Join(SortedLines(jlines), NewLine)
    /\ jpc' = "done"
    /\ UNCHANGED <<metrics, jcount, jlines>>
    /\ UNCHANGED <<exporterVars, pointVars, builderVars, installVars, chunkVars>>

\* the names, values and timestamps of the points collected
PointNames == {<<"a">>, <<"b">>, <<"a", " ">>}
CollectedPoints ==
    [name : PointNames, value : 0..MaxGauge, timestamp : 0..MaxTimestamp]

\* render has collected its points (collect_vec)
InitJoin ==
    /\ InitExporter
    /\ sink = "file"
    /\ PointOff
    /\ BuilderOff
    /\ InstallOff
    /\ metrics \in UNION {[1..n -> CollectedPoints] : n \in 0..MaxPoints}
    /\ jpc = "count"
    /\ jcount = 0
    /\ jlines = <<>>
    /\ jtext = <<>>
    /\ ChunkOff

NextJoin == RenderCount \/ RenderEncode \/ RenderJoin

SpecJoin == InitJoin /\ [][NextJoin]_vars

\* ============================ the flush on close beside the periodic loop
\* The loop, the flush thread started by Drop and a thread that keeps one
\* gauge and one histogram, every interleaving of their steps; the sink is the writer, and
\* write_all is followed one write call at a time.

Chunk(w, end) == [w |-> w, end |-> end]

\* the batch a writer was appending ends where its error left it
CutLast(chunks, w) ==
    LET own == {i \in DOMAIN chunks : chunks[i].w = w} IN
        IF own = {} THEN chunks
        ELSE LET last == CHOOSE i \in own : \A j \in own : j <= i IN
                 [chunks EXCEPT ![last].end = "cut"]

\* write_all: a write call that leaves a part of the batch to be written
FileWritePart(w) ==
    /\ pc[w] = "write"
    /\ parts[w] < MaxChunks - 1
    /\ appended' = Append(appended, Chunk(w, "more"))
    /\ parts' = [parts EXCEPT ![w] = @ + 1]
    /\ UNCHANGED exporterVars
    /\ UNCHANGED <<pointVars, builderVars, installVars, joinVars>>

\* write_all: the write call that ends the batch, or the one that fails
FileWriteLast(w) ==
    /\ pc[w] = "write"
    /\ \E ok \in BOOLEAN :
          IF ok
          THEN /\ file' = file + 1
               /\ appended' = Append(appended, Chunk(w, "last"))
               /\ written' = Bump(body[w])
               /\ pc' = [pc EXCEPT ![w] = "clear"]
               /\ UNCHANGED <<fileLock, result, logged, body, failed>>
          ELSE /\ pc' = [pc EXCEPT ![w] = AfterWriteError(w)]
               /\ appended' = IF parts[w] > 0 THEN CutLast(appended, w)
                              ELSE appended
               /\ failed' = [failed EXCEPT ![w] = @ + 1]
               /\ fileLock' = IF pc'[w] = Return(w) THEN "free" ELSE fileLock
               /\ result' = [result EXCEPT ![w] = "err"]
               /\ logged' = [logged EXCEPT ![w] = @ \cup {CallerLog(w)}]
               /\ body' = [body EXCEPT ![w] = {}]
               /\ UNCHANGED <<file, written>>
    /\ parts' = [parts EXCEPT ![w] = 0]
    /\ UNCHANGED <<pointVars, builderVars, installVars, joinVars>>
    /\ UNCHANGED <<sink, registryVars, counter_registrations, regLock,
                   appVars, closed, ticks, snapVars, posts, response, clears,
                   rendered, lastv, started>>

\* write() with the file sink, from render() to its return
FlushWriterNext(w) ==
    \/ RenderGauges(w)
    \/ RenderRegistrations(w)
    \/ RenderCounters(w)
    \/ RenderHistograms(w)
    \/ RenderCollect(w)
    \/ FileLock(w)
    \/ FileWritePart(w)
    \/ FileWriteLast(w)
    \/ FileClear(w)

InitFlush == Init /\ sink = "file"

NextFlush ==
    \/ \E k \in GaugeKeys : RegisterGauge(k)
    \/ \E k \in GaugeKeys : \E c \in DOMAIN gcells[k] :
          \E v \in 0..MaxGauge : SetGauge(k, c, v)
    \/ \E k \in HistogramKeys : RegisterHistogram(k)
    \/ \E k \in HistogramKeys : \E c \in DOMAIN hcells[k] : Record(k, c)
    \/ Close
    \/ Joined
    \/ FirstTick
    \/ Tick
    \/ \E w \in Writers : FlushWriterNext(w)

SpecFlush == InitFlush /\ [][NextFlush]_vars

\* ======================= register_counter beside two writes of the loop
\* A thread that registers and increments the counters of HotKeys, and the
\* loop over MaxRaceTicks ticks, every interleaving of their steps.
NextRace ==
    \/ \E k \in HotKeys : RegisterCounterCheck(k)
    \/ RegisterCounterCreate
    \/ \E k \in HotKeys : \E c \in DOMAIN ccells[k] : Increment(k, c)
    \/ FirstTick
    \/ TickUpTo(MaxRaceTicks)
    \/ WriterNext("run")

SpecRace == Init /\ [][NextRace]_vars

\* ============================== the two locks, one acquisition at a time
\* A mutant of Unlocked: the guard of the registrations block is kept.
UnlockedKept(holder) == holder

\* a MutexGuard drops at the end of its scope
Unlocked(holder) == "free"

\* register_counter is called: counter_registrations.lock() is requested
RegisterCounterCall(k) ==
    /\ apc = "idle"
    /\ ~closed
    /\ Len(ccells[k]) < MaxGen
    /\ apc' = "call"
    /\ akey' = k
    /\ UNCHANGED offVars
    /\ UNCHANGED <<sink, registryVars, counter_registrations, regLock,
                   fileLock, file, closed, pc, ticks, snapVars, writeVars,
                   recorded, written, incs, rendered, lastv, started, failed>>

\* register_counter: lock() returns the guard; the key is looked up and one
\* that has no cell is noted as newly registered
RegisterCounterLock ==
    /\ apc = "call"
    /\ Acquirable(regLock)
    /\ regLock' = "app"
    /\ apc' = "reg"
    /\ counter_registrations' =
          IF counters[akey] # NoCell THEN counter_registrations
          ELSE counter_registrations \cup {akey}
    /\ UNCHANGED offVars
    /\ UNCHANGED <<sink, registryVars, fileLock, file, akey, closed, pc,
                   ticks, snapVars, writeVars, recorded, written, incs,
                   rendered, lastv, started, failed>>

\* render(): counter_registrations.lock() returns the guard
RegistrationsLock(w) ==
    /\ pc[w] = "regs"
    /\ Acquirable(regLock)
    /\ regLock' = w
    /\ pc' = [pc EXCEPT ![w] = "drain"]
    /\ UNCHANGED offVars
    /\ UNCHANGED <<sink, registryVars, counter_registrations, fileLock, file,
                   appVars, closed, ticks, snapVars, writeVars, written,
                   rendered, lastv, started, failed>>

\* render(): the set is copied and cleared, and the block ends
RegistrationsDrain(w) ==
    /\ pc[w] = "drain"
    /\ rsnap' = [rsnap EXCEPT ![w] = counter_registrations]
    /\ counter_registrations' = Drained(counter_registrations)
    /\ regLock' = Unlocked(regLock)
    /\ pc' = [pc EXCEPT ![w] = "counters"]
    /\ UNCHANGED offVars
    /\ UNCHANGED <<sink, registryVars, fileLock, file, appVars, closed, ticks,
                   gsnap, csnap, dsnap, writeVars, written, rendered, lastv,
                   started, failed>>

\* write() with the file sink, the registrations lock taken and dropped in
\* two steps
LockWriterNext(w) ==
    \/ RenderGauges(w)
    \/ RegistrationsLock(w)
    \/ RegistrationsDrain(w)
    \/ RenderCounters(w)
    \/ RenderHistograms(w)
    \/ RenderCollect(w)
    \/ FileLock(w)
    \/ FileWrite(w)
    \/ FileClear(w)

\* A thread that registers the counters of HotKeys and closes the recorder,
\* the loop over MaxRaceTicks ticks and the flush on close, every
\* interleaving of their steps.
NextLock ==
    \/ \E k \in HotKeys : RegisterCounterCall(k)
    \/ RegisterCounterLock
    \/ RegisterCounterCreate
    \/ Close
    \/ Joined
    \/ FirstTick
    \/ TickUpTo(MaxRaceTicks)
    \/ \E w \in Writers : LockWriterNext(w)

\* Every thread that can take a step takes one; a lock that keeps being
\* released is given to the thread that asks for it.
FairLock ==
    /\ SF_vars(RegisterCounterLock)
    /\ WF_vars(RegisterCounterCreate)
    /\ WF_vars(Joined)
    /\ \A w \in Writers :
          /\ SF_vars(RegistrationsLock(w))
          /\ SF_vars(FileLock(w))
          /\ WF_vars(RenderGauges(w) \/ RegistrationsDrain(w)
                       \/ RenderCounters(w) \/ RenderHistograms(w)
                       \/ RenderCollect(w) \/ FileWrite(w) \/ FileClear(w))

SpecLock == InitFlush /\ [][NextLock]_vars /\ FairLock

\* ================================================================ claims
\* render() has just returned a count > 0 to write()
JustRendered(w) == pc[w] \in {"lock", "post"}

\* a writer is in render()
InRender(w) == pc[w] \in {"gauges", "regs", "counters", "hists", "collect"}

\* the step that ends render()
Collects(w) == pc[w] = "collect" /\ pc'[w] # "collect"

\* the points of a batch that come from the counter of key k
CounterPoints(b, k) == {p \in b : p.key = k /\ p.src \in {"zero", "counter"}}

\* a batch without its timestamps and its zero-registration points
ValueData(b) ==
    {[src |-> p.src, key |-> p.key, value |-> p.value, samples |-> p.samples] :
        p \in {q \in b : q.src # "zero"}}

\* what the registry holds, as render() shows it
RegistryData ==
    {[src |-> "counter", key |-> k, value |-> ccells[k][counters[k]].val,
      samples |-> <<>>] : k \in {x \in Keys : counters[x] # NoCell}}
    \cup
    {[src |-> "gauge", key |-> k, value |-> gcells[k][gauges[k]].val,
      samples |-> <<>>] : k \in {x \in Keys : gauges[x] # NoCell}}
    \cup
    {[src |-> "histogram", key |-> k, value |-> 0,
      samples |-> hcells[k][histograms[k]].samples] :
        k \in {x \in Keys : histograms[x] # NoCell
                            /\ hcells[x][histograms[x]].samples # <<>>}}

LiveCells(cs, k) == {i \in DOMAIN cs[k] : cs[k][i].live}

\* ---------------------------------------------------------------- C1
C1_OneCell(map, cs) ==
    \A k \in Keys :
        /\ Cardinality(LiveCells(cs, k)) <= 1
        /\ map[k] # NoCell => map[k] \in LiveCells(cs, k)

\* C1: the register_* calls made for a key since the last clear() all return
\* the same cell, the one the registry holds for the key (one live cell per
\* kind and key), and the value render() gives for a counter is the sum of
\* the increments made through the handles handed out since the last clear().
C1_SameCell ==
    /\ C1_OneCell(counters, ccells)
    /\ C1_OneCell(gauges, gcells)
    /\ C1_OneCell(histograms, hcells)
    /\ \A k \in Keys :
          counters[k] # NoCell => ccells[k][counters[k]].val = incs[k]
    /\ \A w \in Writers : JustRendered(w) =>
          \A p \in body[w] : p.src = "counter" => p.value = incs[p.key]

\* a second register_counter call for a key is in progress, two increments
\* having been made through the first handle
C1_Witness ==
    /\ apc = "reg"
    /\ akey = "a"
    /\ counters["a"] # NoCell
    /\ incs["a"] = 2

\* ---------------------------------------------------------------- C2
C2_FirstRender(w, k) ==
    (k \notin rendered /\ csnap[w][k] # NoCell) =>
        \E z, c \in body'[w] :
            /\ z.src = "zero" /\ z.key = k /\ z.value = 0
            /\ c.src = "counter" /\ c.key = k /\ c.value = incs[k]
            /\ z.ts = c.ts - MsTicks
            /\ CounterPoints(body'[w], k) = {z, c}

C2_LaterRender(w, k) ==
    (k \in rendered /\ csnap[w][k] # NoCell) =>
        \E c \in body'[w] :
            /\ c.src = "counter" /\ c.key = k /\ c.value = incs[k]
            /\ CounterPoints(body'[w], k) = {c}

Dropped(s) ==
    \E k \in Keys : \E i \in DOMAIN hcells[k] :
        s \in Range(hcells[k][i].samples) /\ ~hcells[k][i].live

\* C3: every recorded sample is counted in exactly one written window: in no
\* two of them, and in one before its cell leaves the registry.
C3_EverySampleOnce ==
    \A s \in 1..recorded :
        /\ written[s] <= 1
        /\ Dropped(s) => written[s] = 1

\* ---------------------------------------------------------------- C4
\* C4: with the HTTP sink, a write() whose POST succeeded has cleared the
\* registry once when it returns.
C4_ClearedAfterDelivery ==
    \A w \in Writers :
        (sink = "http" /\ Idle(w) /\ response[w] = "ok") => clears[w] = 1

\* ---------------------------------------------------------------- C5
\* C5: once Retry::spawn has returned, every attempt carried the body
\* render() returned, no attempt followed a success, and no write() gave up
\* before its third attempt: two failures followed by a success are 3
\* attempts and one delivery.
C5_ThreeAttempts ==
    \A w \in Writers : pc[w] = "finish" =>
        LET ps == posts[w] IN
            /\ \A i \in DOMAIN ps : ps[i].body = body[w]
            /\ \A i \in DOMAIN ps : ps[i].ok => i = Len(ps)
            /\ ~ps[Len(ps)].ok => Len(ps) >= 3
            /\ (Len(ps) >= 3 /\ ps[3].ok) =>
                  /\ Len(ps) = 3
                  /\ Cardinality({i \in DOMAIN ps : ps[i].ok}) = 1

\* two failed attempts, then a success
C5_Witness ==
    \E w \in Writers :
        /\ pc[w] = "finish"
        /\ Len(posts[w]) = 3
        /\ ~posts[w][1].ok /\ ~posts[w][2].ok /\ posts[w][3].ok
        /\ body[w] # {}

\* ---------------------------------------------------------------- C6
C6_Returned ==
    \A w \in Writers :
        (sink = "http" /\ Idle(w) /\ response[w] \in {"status", "transport"}) =>
            /\ clears[w] = 0
            /\ logged[w] # {}
            /\ w = "run" => pc[w] = "wait"

C6_Step ==
    \A w \in Writers :
        (pc[w] = "finish" /\ response[w] # "ok" /\ pc'[w] # "finish") =>
            /\ UNCHANGED registryVars
            /\ RegistryData' = RegistryData
            /\ logged'[w] # {}
            /\ pc'[w] = Return(w)

\* C6: an HTTP write() whose every attempt failed returns without a clear():
\* the registry is as it was, an error is logged, and the loop waits for its
\* next tick.
C6_FailureKeepsRegistry == []C6_Returned /\ [][C6_Step]_vars

\* the loop is back at its tick after a write() that failed every attempt,
\* the counter still in the registry
C6_Witness ==
    /\ sink = "http"
    /\ pc["run"] = "wait"
    /\ response["run"] = "status"
    /\ "failed to write to server" \in logged["run"]
    /\ counters["a"] # NoCell
    /\ ccells["a"][counters["a"]].val = 1

\* ---------------------------------------------------------------- C7
C7_InSink ==
    \A w \in Writers :
        pc[w] \in {"lock", "write", "clear", "post", "finish"} =>
            Count(body[w]) > 0

C7_Step ==
    \A w \in Writers :
        (Collects(w) /\ Count(body'[w]) = 0) =>
            /\ pc'[w] = Return(w)
            /\ result'[w] = "ok"
            /\ clears'[w] = 0
            /\ UNCHANGED <<file, fileLock, posts, response, registryVars,
                           written>>

\* C7: a write() whose render() returns count = 0 returns at once: nothing is
\* appended, nothing is posted, clear() is not called.
C7_NoDataNoOp == []C7_InSink /\ [][C7_Step]_vars

\* the exporter's write() has returned from an empty registry
C7_Witness ==
    /\ pc["run"] = "wait"
    /\ ticks = 2
    /\ result["run"] = "ok"
    /\ clears["run"] = 0
    /\ response["run"] = "none"
    /\ file = 0
    /\ RegistryData = {}

\* ---------------------------------------------------------------- C8
C8_Returned ==
    \A w \in Writers :
        (sink = "file" /\ Idle(w) /\ result[w] = "err") =>
            /\ clears[w] = 0
            /\ fileLock # w

C8_Step ==
    \A w \in Writers :
        (pc[w] = "write" /\ file' = file /\ pc'[w] # "write") =>
            /\ pc'[w] = Return(w)
            /\ result'[w] = "err"
            /\ UNCHANGED registryVars
            /\ ValueData(body[w]) = RegistryData'

C8_RenderShowsRegistry ==
    \A w \in Writers : JustRendered(w) => ValueData(body[w]) = RegistryData

C9_RenderFrame ==
    [][\A w \in Writers : (InRender(w) /\ pc'[w] # pc[w]) =>
          /\ UNCHANGED registryVars
          /\ UNCHANGED <<file, fileLock, regLock>>
          /\ counter_registrations' \in {counter_registrations, {}}
          /\ pc[w] = "regs" => counter_registrations' = {}]_vars

\* render() has returned: the new registration is consumed, the counter, the
\* gauge and the samples are still in their cells
C9_Witness ==
    \E w \in Writers :
        /\ JustRendered(w)
        /\ counter_registrations = {}
        /\ \E p \in body[w] : p.src = "zero"
        /\ \E p \in body[w] : p.src = "histogram" /\ Len(p.samples) = 2
        /\ \E p \in body[w] : p.src = "gauge" /\ p.value = 1
        /\ ValueData(body[w]) = RegistryData

\* ---------------------------------------------------------------- C10
\* C10: no two points of one render() with the same key carry the same
\* timestamp.
C10_DistinctTimestamps ==
    \A w \in Writers : \A p, q \in body[w] :
        (p # q /\ p.key = q.key) => p.ts # q.ts

\* ---------------------------------------------------------------- C13
C13_LoopGoesOn ==
    /\ pc["run"] \notin {"off", "done"}
    /\ (failed["run"] > 0 /\ Idle("run")) => pc["run"] = "wait"
    /\ (failed["run"] > 0 /\ pc["run"] = "wait" /\ ticks < MaxLoopTicks) =>
          ENABLED TickUpTo(MaxLoopTicks)
    /\ started["run"] >= failed["run"]

C13_Step ==
    failed'["run"] # failed["run"] =>
        /\ failed'["run"] = failed["run"] + 1
        /\ result'["run"] = "err"
        /\ CallerLog("run") \in logged'["run"]
        /\ pc'["run"] = "wait"

\* C13: a write() of the loop that returns an error is logged and the loop
\* goes back to wait for its next tick: run never ends, and the next tick
\* starts a write() as after a write() that succeeded.
C13_FailureNotFatal == []C13_LoopGoesOn /\ [][C13_Step]_vars

\* a write() of the loop has failed and a later tick has started the third
C13_Witness ==
    /\ failed["run"] >= 1
    /\ started["run"] = 3
    /\ pc["run"] = "gauges"

\* ---------------------------------------------------------------- C14
\* C14: the first tick of the interval starts no write() and every later
\* tick starts exactly one: after n >= 1 ticks, n - 1 write() calls have
\* been started.
C14_WritesPerTick ==
    started["run"] = IF ticks = 0 THEN 0 ELSE ticks - 1

\* four ticks, three writes
C14_Witness ==
    /\ ticks = 4
    /\ started["run"] = 3
    /\ pc["run"] = "wait"

\* ---------------------------------------------------------------- C15
C15_Flushed ==
    /\ started["drop"] <= 1
    /\ (closed /\ apc = "join") => started["drop"] = 1
    /\ (closed /\ apc = "idle") => pc["drop"] = "done"
    /\ (pc["drop"] = "done" /\ failed["drop"] > 0) =>
          CallerLog("drop") \in logged["drop"]

C15_Step ==
    /\ (apc = "join" /\ apc' # "join") =>
          /\ apc' = "idle"
          /\ pc["drop"] = "done"
          /\ started["drop"] = 1
    /\ (Collects("drop") /\ RegistryData # {}) =>
          /\ pc'["drop"] \in {"lock", "post"}
          /\ ValueData(body'["drop"]) = RegistryData
    /\ (pc["drop"] = "write" /\ failed'["drop"] = failed["drop"]
        /\ pc'["drop"] # "write") => file' = file + 1
    /\ (pc["drop"] = "post" /\ pc'["drop"] = "finish") =>
          /\ posts'["drop"] # <<>>
          /\ \A i \in DOMAIN posts'["drop"] :
                posts'["drop"][i].body = body["drop"]

LabelValuesOf(k) ==
    {key.labels[i].v : i \in {j \in DOMAIN key.labels : key.labels[j].k = k}}

\* C11: an explicit label (tag:k, field:k) goes before the global tag or
\* field k, which goes before an unprefixed label k.
C11_Precedence ==
    ppc \in {"display", "done"} =>
        LET k == <<"k">>
            explicitTags == LabelValuesOf(TagPrefix \o k)
            explicitFields == LabelValuesOf(FieldPrefix \o k)
        IN  /\ explicitTags # {} => tags[k] \in explicitTags
            /\ explicitFields # {} =>
                  fields[k] \in {StringData(v) : v \in explicitFields}
            /\ (explicitTags = {} /\ k \in DOMAIN global_tags) =>
                  tags[k] = global_tags[k]

\* ---------------------------------------------------------------- C19
\* the keys of a map in ascending order
Ascending(S) ==
    CHOOSE q \in Orders(S) : \A i \in 1..(Len(q) - 1) : StrLess(q[i], q[i + 1])

RECURSIVE C20_Escaped(_)
C20_Escaped(s) ==
    IF s = <<>> THEN <<>>
    ELSE (IF Head(s) \in {" ", ",", "="} THEN <<"\\", Head(s)>>
          ELSE <<Head(s)>>) \o C20_Escaped(Tail(s))

C20_Text ==
    LET to == Ascending(DOMAIN tags)
        fo == Ascending(DOMAIN fields)
    IN  C20_Escaped(key.name)
        \o (IF DOMAIN tags = {} THEN <<>>
            ELSE <<",">> \o
                 Join([i \in DOMAIN to |->
                          C20_Escaped(to[i]) \o <<"=">>
                          \o C20_Escaped(tags[to[i]])], <<",">>))
        \o <<" ">>
        \o Join([i \in DOMAIN fo |->
                    C20_Escaped(fo[i]) \o <<"=">> \o FormatData(fields[fo[i]])],
                <<",">>)
        \o <<" ">> \o <<Digit(0)>>

\* C20: in the name, the tag keys, the tag values and the field keys of the
\* text of a point, each space, comma and equals sign has one backslash put
\* before it and every other character stands as it is.
C20_Escaping == ppc = "done" => line = C20_Text

\* a point whose name, tag key and tag values hold the three characters and
\* a backslash has been encoded
C20_Witness ==
    /\ ppc = "done"
    /\ key.name = <<"\\", " ">>
    /\ <<"a", " ">> \in DOMAIN tags
    /\ tags[<<"a", " ">>] = <<"=", "b">>
    /\ <<"k">> \in DOMAIN tags /\ tags[<<"k">>] = <<"a", ",">>

\* ---------------------------------------------------------------- C12
\* the registrations of asked.overrides whose matcher matches the name
Registered(name) ==
    {i \in DOMAIN asked.overrides :
        Matches(asked.overrides[i].matcher, name)}

\* C12: a name that matches no registered override has the policy the
\* default gives it, the list of with_buckets or else a summary, whatever
\* overrides are registered; a name matched by one registration has the list
\* of that registration.
C12_UnmatchedKeepDefault ==
    bpc \in {"built", "rendered"} =>
        \A n \in MetricNames :
            LET d == GetDistribution(distribution_builder, n) IN
                /\ Registered(n) = {} =>
                      d = IF asked.default.some
                          THEN NewHistogram(asked.default.val)
                          ELSE NewSummary(distribution_builder.quantiles)
                /\ \A i \in Registered(n) : Registered(n) = {i} =>
                      d = NewHistogram(asked.overrides[i].values)

\* ---------------------------------------------------------------- C17
C17_NeverEmpty ==
    /\ bpc \in {"built", "rendered"} =>
          /\ distribution_builder.quantiles # <<>>
          /\ distribution_builder.buckets.some =>
                distribution_builder.buckets.val # <<>>
          /\ \A i \in DOMAIN distribution_builder.bucket_overrides :
                distribution_builder.bucket_overrides[i].values # <<>>
          /\ \A n \in MetricNames :
                LET d == GetDistribution(distribution_builder, n) IN
                    IF d.kind = "Histogram" THEN d.bounds # <<>>
                    ELSE d.quantiles # <<>>
    /\ bpc = "failed" =>
          /\ berr = "EmptyBucketsOrQuantiles"
          /\ distribution_builder.quantiles = <<>>
          /\ hname = <<>>

C17_Step ==
    /\ bpc = "failed" => UNCHANGED builderVars
    /\ (bpc = "config" /\ bpc' = "failed") =>
          UNCHANGED <<builder, distribution_builder, hname, bucket, hpoint>>

\* C17: with_quantiles, with_buckets and add_buckets_for_metric given an
\* empty list return an error while the builder is being configured, and no
\* recorder is built from that builder; so the quantiles and every list of
\* boundaries render() works on are non-empty.
C17_EmptyRejected == []C17_NeverEmpty /\ [][C17_Step]_vars

\* a call with an empty list has failed after with_buckets had succeeded
C17_Witness ==
    /\ bpc = "failed"
    /\ berr = "EmptyBucketsOrQuantiles"
    /\ builder.buckets = Some(<<1>>)
    /\ builder.bucket_overrides = <<>>

\* ---------------------------------------------------------------- C18
RECURSIVE SumOf(_)
SumOf(samples) ==
    IF samples = <<>> THEN 0 ELSE Head(samples) + SumOf(Tail(samples))

C16_FailedInstallIsQuiet ==
    [][\A i \in 1..MaxInstalls :
          (/\ install[i].pc = "returned"
           /\ install[i].result = "FailedToSetGlobalRecorder") =>
              /\ install[i].exporter # "running"
              /\ install'[i].ticks = install[i].ticks]_vars

\* ---------------------------------------------------------------- C21
\* str::split('\n') of a text that is not empty
RECURSIVE SplitLines(_, _)
SplitLines(text, current) ==
    IF text = <<>> THEN <<current>>
    ELSE IF Head(text) = "\n" THEN <<current>> \o SplitLines(Tail(text), <<>>)
    ELSE SplitLines(Tail(text), Append(current, Head(text)))

\* the lines of a text
LinesOf(text) == IF text = <<>> THEN <<>> ELSE SplitLines(text, <<>>)

\* how often x occurs in a sequence
Occurrences(seq, x) == Cardinality({i \in DOMAIN seq : seq[i] = x})

\* C21: the text render() returns is the encoded points, one per line, in
\* ascending order of the lines as strings, and the count it returns is the
\* number of points, which is the number of lines; the count is 0 exactly
\* when there is no point, and then the text is empty.
C21_SortedText ==
    jpc = "done" =>
        LET ls == LinesOf(jtext) IN
            /\ jcount = Len(metrics)
            /\ Len(ls) = jcount
            /\ \A i, j \in DOMAIN ls : i < j => ~StrLess(ls[j], ls[i])
            /\ \A i \in DOMAIN metrics :
                  Occurrences(ls, Encode(metrics[i])) =
                  Cardinality({j \in DOMAIN metrics :
                                  Encode(metrics[j]) = Encode(metrics[i])})
            /\ jcount = 0 <=> metrics = <<>>
            /\ jcount = 0 <=> jtext = <<>>

\* the later point "a" is the first line and the earlier point "b" the
\* second
C21_Witness ==
    /\ jpc = "done"
    /\ jcount = 2
    /\ metrics[1].name = <<"b">> /\ metrics[1].timestamp = 0
    /\ metrics[2].name = <<"a">> /\ metrics[2].timestamp = 1
    /\ LinesOf(jtext) = <<Encode(metrics[2]), Encode(metrics[1])>>

\* ---------------------------------------------------------------- C22
\* C22: one HTTP write() makes at most 3 POST attempts, the first one
\* included, whatever the outcomes of the attempts.
C22_AtMostThreeAttempts ==
    \A w \in Writers : Len(posts[w]) <= 3

\* ---------------------------------------------------------------- C23
\* the writers that hold the sink
Holders == {w \in Writers : pc[w] \in {"write", "clear"}}

C23_OneWriter ==
    /\ Cardinality(Holders) <= 1
    /\ \A w \in Holders : fileLock = w

C23_WholeBatches ==
    \A i \in DOMAIN appended :
        appended[i].end = "more" =>
            IF i < Len(appended) THEN appended[i + 1].w = appended[i].w
            ELSE pc[appended[i].w] = "write"

C23_Step ==
    started'["run"] # started["run"] =>
        /\ pc["run"] = "wait"
        /\ started'["run"] = started["run"] + 1

\* C23: the loop starts a write() only when its previous write() has
\* returned; at most one writer holds the file sink; and the chunks of a
\* batch are appended one after the other with no chunk of another batch
\* between them, the flush on close running beside the loop.
C23_NoOverlap ==
    []C23_OneWriter /\ []C23_WholeBatches /\ [][C23_Step]_vars

\* the loop has appended a part of its batch and the flush waits for the sink
C23_Witness ==
    /\ pc["run"] = "write"
    /\ parts["run"] = 1
    /\ pc["drop"] = "lock"
    /\ appended = <<Chunk("run", "more")>>

\* ---------------------------------------------------------------- C29
\* C29: with the file sink no sample is appended in two batches: the loop
\* and the flush on close never both append a batch rendered from one state
\* of the registry that no clear() has ended.
C29_AppendedOnce ==
    sink = "file" => \A s \in 1..recorded : written[s] <= 1

\* ---------------------------------------------------------------- C24
C24_NewAfterClear ==
    \A k \in Keys :
        (Idle("run") /\ Idle("drop") /\ counters[k] # NoCell
         /\ k \notin rendered) => k \in counter_registrations

C24_Step ==
    /\ \A w \in Writers : clears'[w] > clears[w] =>
          /\ counters' = NoMap
          /\ gauges' = NoMap
          /\ histograms' = NoMap
          /\ RegistryData' = {}
    /\ (apc = "reg" /\ apc' = "idle" /\ counters[akey] = NoCell) =>
          /\ counters'[akey] \notin DOMAIN ccells[akey]
          /\ ccells'[akey][counters'[akey]].val = 0
          /\ akey \in counter_registrations'
    /\ \A w \in Writers : Collects(w) =>
          \A k \in rsnap[w] :
              \E z \in body'[w] : z.src = "zero" /\ z.key = k /\ z.value = 0

\* C24: clear() leaves no counter, gauge or histogram in the registry; a
\* counter key registered again afterwards gets a new cell whose value is 0
\* and is noted as newly registered, so the next render() gives its
\* zero-registration point again.
C24_ClearStartsAnew == []C24_NewAfterClear /\ [][C24_Step]_vars

\* counter "a" had reached 2 and was written and cleared; registered again
\* and incremented once, it is rendered as a zero point and the value 1
C24_Witness ==
    /\ sink = "file"
    /\ file = 1
    /\ pc["drop"] = "lock"
    /\ Len(ccells["a"]) = 2
    /\ ccells["a"][1] = [val |-> 2, live |-> FALSE]
    /\ CounterPoints(body["drop"], "a") =
          {Point("zero", "a", 0, <<>>, 0 - MsTicks),
           Point("counter", "a", 1, <<>>, 0)}

\* ---------------------------------------------------------------- C25
\* C25: the value a render() gives for a counter key is not smaller than
\* the value the render() before it gave for the key, no clear() having run
\* between the two, whatever increments were made through whichever handle.
C25_NeverDecreases ==
    [][\A w \in Writers : Collects(w) =>
          \A p \in body'[w] : p.src = "counter" => p.value >= lastv[p.key]]_vars

\* no clear() having run, the loop's render gave 1 for counter "a" and the
\* flush's render is about to give 2
C25_Witness ==
    /\ pc["drop"] = "collect"
    /\ started["run"] = 1
    /\ lastv["a"] = 1
    /\ csnap["drop"]["a"] # NoCell
    /\ ccells["a"][csnap["drop"]["a"]].val = 2

\* ---------------------------------------------------------------- C26
\* C26: a name that registered overrides match gets the boundary list of the
\* one registered first among them.
C26_FirstRegisteredWins ==
    bpc \in {"built", "rendered"} =>
        \A n \in MetricNames :
            Registered(n) # {} =>
                LET first == CHOOSE i \in Registered(n) :
                                 \A j \in Registered(n) : i <= j
                IN  GetDistribution(distribution_builder, n) =
                        NewHistogram(asked.overrides[first].values)

\* ---------------------------------------------------------------- C27
\* C27: once close() has returned, the loop appends nothing to the writer
\* and posts nothing (no write() of the loop is in flight when close() is
\* called here, so there is none to complete).
C27_QuietAfterClose ==
    [][(closed /\ apc = "idle") =>
          /\ file' = file
          /\ Len(posts'["run"]) <= Len(posts["run"])]_vars

\* ---------------------------------------------------------------- C28
\* C28: with the file sink, when a write() whose append succeeded clears the
\* registry, the batch it appended carries, for every counter the registry
\* holds, the value the counter's cell has then: no increment made up to the
\* clear() is dropped with the cell.
C28_NoLostIncrement ==
    [][\A w \in Writers :
          (sink = "file" /\ pc[w] = "clear" /\ pc'[w] # "clear") =>
              \A k \in Keys : counters[k] # NoCell =>
                  \E p \in body[w] :
                      /\ p.src = "counter"
                      /\ p.key = k
                      /\ p.value = ccells[k][counters[k]].val]_vars

\* ---------------------------------------------------------------- C30
\* C30: a render() that gives the zero-registration point of a key also
\* gives the value of the cell the registry holds for the key, and no
\* render() since the last clear() has given a value for that counter.
C30_ZeroWithValue ==
    [][\A w \in Writers : Collects(w) =>
          \A k \in rsnap[w] :
              /\ csnap[w][k] # NoCell
              /\ csnap[w][k] = counters[k]
              /\ k \notin rendered]_vars

\* ---------------------------------------------------------------- C31
Threads == {"app"} \cup Writers

\* thread t has asked for the registrations lock and has not got it yet
WaitsRegistrations(t) ==
    \/ t = "app" /\ apc = "call"
    \/ t \in Writers /\ pc[t] = "regs"

\* thread t has asked for the writer's lock and has not got it yet
WaitsWriter(t) == t \in Writers /\ pc[t] = "lock"

\* thread t cannot go on before thread u lets go of a lock
WaitsFor(t, u) ==
    \/ WaitsRegistrations(t) /\ regLock = u
    \/ WaitsWriter(t) /\ fileLock = u

WaitCycle ==
    \/ \E t \in Threads : WaitsFor(t, t)
    \/ \E t, u \in Threads : WaitsFor(t, u) /\ WaitsFor(u, t)
    \/ \E t, u, v \in Threads :
          WaitsFor(t, u) /\ WaitsFor(u, v) /\ WaitsFor(v, t)

\* the thread that holds the writer's lock, from write_all to the return of
\* write(), does not hold the registrations lock, and neither does a thread
\* that waits for the writer's lock
NoLockAcrossIO ==
    \A w \in Writers :
        (pc[w] \in {"lock", "write", "clear"} \/ fileLock = w) => regLock # w

\* C31: with the file sink, whatever the interleaving of register_counter,
\* the loop's write() and the flush on close, no thread holds the
\* registrations lock while it appends to the sink or holds or awaits the
\* writer's lock, the threads never wait for each other's locks in a cycle,
\* and every register_counter call that has begun returns.
C31_NoDeadlock ==
    /\ [](NoLockAcrossIO /\ ~WaitCycle)
    /\ (apc \in {"call", "reg"}) ~> (apc = "idle")

\* register_counter holds the registrations lock while the loop appends
\* under the writer's lock
C31_Witness ==
    /\ regLock = "app"
    /\ apc = "reg"
    /\ fileLock = "run"
    /\ pc["run"] = "write"

====
